---- MODULE Spec2Model ----
(***************************************************************************)
(* ServerClient (src/src/client/ServerClient.ts): the endpoint facade of   *)
(* the Postmark server API.  Every method fixes a verb, a path and a       *)
(* payload and hands them, with the caller's optional callback, to one of  *)
(* the two request entries it inherits from BaseClient.                    *)
(*                                                                         *)
(* Strings that the code builds (paths, identifiers) are sequences of      *)
(* one-character strings, so that a template literal is a concatenation    *)
(* and the characters of the result can be inspected.                      *)
(***************************************************************************)
EXTENDS Integers, Sequences, FiniteSets, TLC

VARIABLES serverToken, client, heap, invocations, exchanges

vars == <<serverToken, client, heap, invocations, exchanges>>

(***************************************************************************)
(* Bounds of the model.                                                    *)
(***************************************************************************)
MaxCalls == 2
MaxIdLen == 2

(***************************************************************************)
(* JavaScript values.                                                      *)
(***************************************************************************)
Undefined == [undefined |-> TRUE]
Null == [null |-> TRUE]
Num(n) == [num |-> n]
Str(s) == [str |-> s]
EmptyObject == [object |-> [k \in {} |-> Undefined]]
Obj(f) == [object |-> f]
Arr(s) == [array |-> s]

(***************************************************************************)
(* Template literals: `${id}` is String(id).                               *)
(***************************************************************************)
Digit(d) == CASE d = 0 -> "0" [] d = 1 -> "1" [] d = 2 -> "2" [] d = 3 -> "3"
              [] d = 4 -> "4" [] d = 5 -> "5" [] d = 6 -> "6" [] d = 7 -> "7"
              [] d = 8 -> "8" [] d = 9 -> "9"

RECURSIVE Digits(_)
Digits(n) == IF n < 10 THEN <<Digit(n)>> ELSE Append(Digits(n \div 10), Digit(n % 10))

NumberToString(n) == IF n < 0 THEN <<"-">> \o Digits(0 - n) ELSE Digits(n)

(***************************************************************************)
(* URL escaping of a path component (encodeURIComponent), which the claims *)
(* about identifiers speak of.                                             *)
(***************************************************************************)
UrlReserved == {"/", "?", "#", "%", " "}

EscapeChar(c) ==
    CASE c = "/" -> <<"%", "2", "F">>
      [] c = "?" -> <<"%", "3", "F">>
      [] c = "#" -> <<"%", "2", "3">>
      [] c = "%" -> <<"%", "2", "5">>
      [] c = " " -> <<"%", "2", "0">>
      [] OTHER -> <<c>>

RECURSIVE UrlEscape(_)
UrlEscape(s) == IF s = <<>> THEN <<>> ELSE EscapeChar(Head(s)) \o UrlEscape(Tail(s))

(***************************************************************************)
(* The literal pieces of the paths.                                        *)
(***************************************************************************)
Slash == <<"/">>
W_email == <<"e", "m", "a", "i", "l">>
W_batch == <<"b", "a", "t", "c", "h">>
W_deliverystats == <<"d", "e", "l", "i", "v", "e", "r", "y", "s", "t", "a", "t", "s">>
W_bounces == <<"b", "o", "u", "n", "c", "e", "s">>
W_dump == <<"d", "u", "m", "p">>
W_activate == <<"a", "c", "t", "i", "v", "a", "t", "e">>
W_tags == <<"t", "a", "g", "s">>
W_server == <<"s", "e", "r", "v", "e", "r">>
W_messages == <<"m", "e", "s", "s", "a", "g", "e", "s">>
W_outbound == <<"o", "u", "t", "b", "o", "u", "n", "d">>
W_inbound == <<"i", "n", "b", "o", "u", "n", "d">>
W_details == <<"d", "e", "t", "a", "i", "l", "s">>
W_bypass == <<"b", "y", "p", "a", "s", "s">>
W_retry == <<"r", "e", "t", "r", "y">>

(***************************************************************************)
(* Object spread: {...a, ...b}.  The result is a new object with the keys  *)
(* of both; on a key of both, the value of b.                              *)
(***************************************************************************)
Props(v) == v.object

Spread(a, b) ==
    Obj([k \in (DOMAIN Props(a)) \cup (DOMAIN Props(b)) |->
            IF k \in DOMAIN Props(b) THEN Props(b)[k] ELSE Props(a)[k]])

(***************************************************************************)
(* A filter argument is undefined (the parameter's default, {}, applies)   *)
(* or a reference to an object of the caller.                              *)
(***************************************************************************)
Ref(o) == [ref |-> o]

Deref(h, filter) == IF filter = Undefined THEN Undefined ELSE h[filter.ref]

DefaultParameter(v, default) == IF v = Undefined THEN default ELSE v

(***************************************************************************)
(* BaseClient: the constructor stores the token and the name of the header *)
(* that carries it; the two request entries build the request, attach the  *)
(* header and return a promise for the exchange.  The exchange ends with   *)
(* an HTTP response (2xx resolves the promise with the parsed body, any    *)
(* other status rejects it with an error that carries the status, the      *)
(* remote error code and the message) or with a transport failure (the     *)
(* promise is rejected with the transport's error).  A callback, when      *)
(* there is one, is called with (null, result) or (error, undefined).      *)
(***************************************************************************)
BaseClient(token, authHeader) == [token |-> token, authHeader |-> authHeader]

NewExchange(entry, method, path, payload, callback) ==
    [entry |-> entry, method |-> method, path |-> path, payload |-> payload,
     header |-> [name |-> client.authHeader, value |-> client.token],
     callback |-> callback, response |-> Undefined,
     state |-> "pending", value |-> Undefined, settles |-> 0, cbCalls |-> <<>>]

processRequestWithBody(ex, method, path, body, callback) ==
    Append(ex, NewExchange("WithBody", method, path, body, callback))

processRequestWithoutBody(ex, method, path, queryParameters, callback) ==
    Append(ex, NewExchange("WithoutBody", method, path, queryParameters, callback))

PostmarkError(response) ==
    [status |-> response.status, code |-> response.body.ErrorCode,
     message |-> response.body.Message]

Settle(e, response, state, value, err, result) ==
    [e EXCEPT !.response = response, !.state = state, !.value = value,
              !.settles = @ + 1,
              !.cbCalls = IF e.callback = Undefined THEN @
                          ELSE Append(@, [callback |-> e.callback, error |-> err,
                                          result |-> result])]

Respond(i, response) ==
    /\ i \in 1..Len(exchanges)
    /\ exchanges[i].state = "pending"
    /\ exchanges' = [exchanges EXCEPT ![i] =
          IF response.status >= 200 /\ response.status < 300
          THEN Settle(@, response, "resolved", response.body, Null, response.body)
          ELSE Settle(@, response, "rejected", PostmarkError(response),
                      PostmarkError(response), Undefined)]
    /\ UNCHANGED <<serverToken, client, heap, invocations>>

TransportFailure(i, error) ==
    /\ i \in 1..Len(exchanges)
    /\ exchanges[i].state = "pending"
    /\ exchanges' = [exchanges EXCEPT ![i] =
          Settle(@, error, "rejected", error, error, Undefined)]
    /\ UNCHANGED <<serverToken, client, heap, invocations>>

(***************************************************************************)
(* The call a caller makes: which method, with which arguments, and the    *)
(* promise the method returned (the index of the exchange it stands for).  *)
(***************************************************************************)
Invoked(name, arg, callback, promise) ==
    invocations' = Append(invocations,
        [name |-> name, arg |-> arg, callback |-> callback, promise |-> promise])

(***************************************************************************)
(* ServerClient.                                                           *)
(***************************************************************************)
\* The constructor passing the account-token header name.
ServerClient_AccountToken(token) == BaseClient(token, "ACCOUNT_TOKEN")

ServerClient(token) == BaseClient(token, "SERVER_TOKEN")

Defaults == Obj([k \in {"count", "offset"} |-> IF k = "count" THEN Num(100) ELSE Num(0)])

\* sendEmail starting the exchange a second time.
sendEmail_Twice(message, callback) ==
    /\ exchanges' = processRequestWithBody(
                        processRequestWithBody(exchanges, "POST", Slash \o W_email,
                                               message, callback),
                        "POST", Slash \o W_email, message, callback)
    /\ Invoked("sendEmail", message, callback, Len(exchanges'))
    /\ UNCHANGED <<serverToken, client, heap>>

sendEmail(message, callback) ==
    /\ exchanges' = processRequestWithBody(exchanges, "POST", Slash \o W_email,
                                           message, callback)
    /\ Invoked("sendEmail", message, callback, Len(exchanges'))
    /\ UNCHANGED <<serverToken, client, heap>>

\* sendEmailBatch posting to the path of sendEmail.
sendEmailBatch_SinglePath(messages, callback) ==
    /\ exchanges' = processRequestWithBody(exchanges, "POST", Slash \o W_email,
                                           messages, callback)
    /\ Invoked("sendEmailBatch", messages, callback, Len(exchanges'))
    /\ UNCHANGED <<serverToken, client, heap>>

sendEmailBatch(messages, callback) ==
    /\ exchanges' = processRequestWithBody(exchanges, "POST",
                        Slash \o W_email \o Slash \o W_batch, messages, callback)
    /\ Invoked("sendEmailBatch", messages, callback, Len(exchanges'))
    /\ UNCHANGED <<serverToken, client, heap>>

getDeliveryStatistics(callback) ==
    /\ exchanges' = processRequestWithoutBody(exchanges, "GET",
                        Slash \o W_deliverystats, EmptyObject, callback)
    /\ Invoked("getDeliveryStatistics", Undefined, callback, Len(exchanges'))
    /\ UNCHANGED <<serverToken, client, heap>>

\* getBounces with the spread the other way round: {...filter, ...{count, offset}}.
getBounces_DefaultsWin(filter, callback) ==
    /\ exchanges' = processRequestWithoutBody(exchanges, "GET", Slash \o W_bounces,
                        Spread(DefaultParameter(Deref(heap, filter), EmptyObject), Defaults),
                        callback)
    /\ Invoked("getBounces", filter, callback, Len(exchanges'))
    /\ UNCHANGED <<serverToken, client, heap>>

getBounces(filter, callback) ==
    /\ exchanges' = processRequestWithoutBody(exchanges, "GET", Slash \o W_bounces,
                        Spread(Defaults, DefaultParameter(Deref(heap, filter), EmptyObject)),
                        callback)
    /\ Invoked("getBounces", filter, callback, Len(exchanges'))
    /\ UNCHANGED <<serverToken, client, heap>>

getBounce(id, callback) ==
    /\ exchanges' = processRequestWithoutBody(exchanges, "GET",
                        Slash \o W_bounces \o Slash \o NumberToString(id),
                        EmptyObject, callback)
    /\ Invoked("getBounce", Num(id), callback, Len(exchanges'))
    /\ UNCHANGED <<serverToken, client, heap>>

getBounceDump(id, callback) ==
    /\ exchanges' = processRequestWithoutBody(exchanges, "GET",
                        Slash \o W_bounces \o Slash \o NumberToString(id) \o Slash \o W_dump,
                        EmptyObject, callback)
    /\ Invoked("getBounceDump", Num(id), callback, Len(exchanges'))
    /\ UNCHANGED <<serverToken, client, heap>>

\* activateBounce through the entry without a body.
activateBounce_WithoutBody(id, callback) ==
    /\ exchanges' = processRequestWithoutBody(exchanges, "PUT",
                        Slash \o W_bounces \o Slash \o NumberToString(id) \o Slash \o W_activate,
                        EmptyObject, callback)
    /\ Invoked("activateBounce", Num(id), callback, Len(exchanges'))
    /\ UNCHANGED <<serverToken, client, heap>>

activateBounce(id, callback) ==
    /\ exchanges' = processRequestWithBody(exchanges, "PUT",
                        Slash \o W_bounces \o Slash \o NumberToString(id) \o Slash \o W_activate,
                        EmptyObject, callback)
    /\ Invoked("activateBounce", Num(id), callback, Len(exchanges'))
    /\ UNCHANGED <<serverToken, client, heap>>

\* getBounceTags not passing the callback on.
getBounceTags_NoCallback(callback) ==
    /\ exchanges' = processRequestWithoutBody(exchanges, "GET",
                        Slash \o W_bounces \o Slash \o W_tags, EmptyObject, Undefined)
    /\ Invoked("getBounceTags", Undefined, callback, Len(exchanges'))
    /\ UNCHANGED <<serverToken, client, heap>>

getBounceTags(callback) ==
    /\ exchanges' = processRequestWithoutBody(exchanges, "GET",
                        Slash \o W_bounces \o Slash \o W_tags, EmptyObject, callback)
    /\ Invoked("getBounceTags", Undefined, callback, Len(exchanges'))
    /\ UNCHANGED <<serverToken, client, heap>>

\* getServer without the return: the caller gets undefined, no promise.
getServer_NoReturn(callback) ==
    /\ exchanges' = processRequestWithoutBody(exchanges, "GET", Slash \o W_server,
                        EmptyObject, callback)
    /\ Invoked("getServer", Undefined, callback, 0)
    /\ UNCHANGED <<serverToken, client, heap>>

getServer(callback) ==
    /\ exchanges' = processRequestWithoutBody(exchanges, "GET", Slash \o W_server,
                        EmptyObject, callback)
    /\ Invoked("getServer", Undefined, callback, Len(exchanges'))
    /\ UNCHANGED <<serverToken, client, heap>>

editServer(options, callback) ==
    /\ exchanges' = processRequestWithBody(exchanges, "PUT", Slash \o W_server,
                        options, callback)
    /\ Invoked("editServer", options, callback, Len(exchanges'))
    /\ UNCHANGED <<serverToken, client, heap>>

\* getOutboundMessages keeping a cursor on the client: the default offset moves on
\* with every request the client has made.
getOutboundMessages_Cursor(filter, callback) ==
    /\ exchanges' = processRequestWithoutBody(exchanges, "GET",
                        Slash \o W_messages \o Slash \o W_outbound,
                        Spread(Obj([count |-> Num(100), offset |-> Num(100 * Len(exchanges))]),
                               DefaultParameter(Deref(heap, filter), EmptyObject)),
                        callback)
    /\ Invoked("getOutboundMessages", filter, callback, Len(exchanges'))
    /\ UNCHANGED <<serverToken, client, heap>>

getOutboundMessages(filter, callback) ==
    /\ exchanges' = processRequestWithoutBody(exchanges, "GET",
                        Slash \o W_messages \o Slash \o W_outbound,
                        Spread(Defaults, DefaultParameter(Deref(heap, filter), EmptyObject)),
                        callback)
    /\ Invoked("getOutboundMessages", filter, callback, Len(exchanges'))
    /\ UNCHANGED <<serverToken, client, heap>>

getOutboundMessageDetails(messageId, callback) ==
    /\ exchanges' = processRequestWithoutBody(exchanges, "GET",
                        Slash \o W_messages \o Slash \o W_outbound \o Slash \o messageId,
                        EmptyObject, callback)
    /\ Invoked("getOutboundMessageDetails", Str(messageId), callback, Len(exchanges'))
    /\ UNCHANGED <<serverToken, client, heap>>

\* getOutboundMessageDump escaping the identifier.
getOutboundMessageDump_Escaped(messageId, callback) ==
    /\ exchanges' = processRequestWithoutBody(exchanges, "GET",
                        Slash \o W_messages \o Slash \o W_outbound \o Slash
                            \o UrlEscape(messageId) \o Slash \o W_dump,
                        EmptyObject, callback)
    /\ Invoked("getOutboundMessageDump", Str(messageId), callback, Len(exchanges'))
    /\ UNCHANGED <<serverToken, client, heap>>

getOutboundMessageDump(messageId, callback) ==
    /\ exchanges' = processRequestWithoutBody(exchanges, "GET",
                        Slash \o W_messages \o Slash \o W_outbound \o Slash \o messageId
                            \o Slash \o W_dump,
                        EmptyObject, callback)
    /\ Invoked("getOutboundMessageDump", Str(messageId), callback, Len(exchanges'))
    /\ UNCHANGED <<serverToken, client, heap>>

\* getInboundMessages writing the merged query into the caller's object:
\* Object.assign(filter, {count: 100, offset: 0}, {...filter}).
getInboundMessages_AssignsToFilter(filter, callback) ==
    /\ exchanges' = processRequestWithoutBody(exchanges, "GET",
                        Slash \o W_messages \o Slash \o W_inbound,
                        Spread(Defaults, DefaultParameter(Deref(heap, filter), EmptyObject)),
                        callback)
    /\ Invoked("getInboundMessages", filter, callback, Len(exchanges'))
    /\ heap' = IF filter = Undefined THEN heap
               ELSE [heap EXCEPT ![filter.ref] = Spread(Defaults, heap[filter.ref])]
    /\ UNCHANGED <<serverToken, client>>

getInboundMessages(filter, callback) ==
    /\ exchanges' = processRequestWithoutBody(exchanges, "GET",
                        Slash \o W_messages \o Slash \o W_inbound,
                        Spread(Defaults, DefaultParameter(Deref(heap, filter), EmptyObject)),
                        callback)
    /\ Invoked("getInboundMessages", filter, callback, Len(exchanges'))
    /\ UNCHANGED <<serverToken, client, heap>>

getInboundMessageDetails(messageId, callback) ==
    /\ exchanges' = processRequestWithoutBody(exchanges, "GET",
                        Slash \o W_messages \o Slash \o W_inbound \o Slash \o messageId
                            \o Slash \o W_details,
                        EmptyObject, callback)
    /\ Invoked("getInboundMessageDetails", Str(messageId), callback, Len(exchanges'))
    /\ UNCHANGED <<serverToken, client, heap>>

bypassBlockedInboundMessage(messageId, callback) ==
    /\ exchanges' = processRequestWithoutBody(exchanges, "PUT",
                        Slash \o W_messages \o Slash \o W_inbound \o Slash \o messageId
                            \o Slash \o W_bypass,
                        EmptyObject, callback)
    /\ Invoked("bypassBlockedInboundMessage", Str(messageId), callback, Len(exchanges'))
    /\ UNCHANGED <<serverToken, client, heap>>

retryInboundHookForMessage(messageId, callback) ==
    /\ exchanges' = processRequestWithoutBody(exchanges, "PUT",
                        Slash \o W_messages \o Slash \o W_inbound \o Slash \o messageId
                            \o Slash \o W_retry,
                        EmptyObject, callback)
    /\ Invoked("retryInboundHookForMessage", Str(messageId), callback, Len(exchanges'))
    /\ UNCHANGED <<serverToken, client, heap>>

(***************************************************************************)
(* The values the callers and the remote service draw from.                *)
(***************************************************************************)
Callbacks == {Undefined, Str("callback")}

Message1 == Obj([From |-> Str("a@x.com"), To |-> Str("b@x.com"), Subject |-> Str("hi")])
Message2 == Obj([To |-> Str("nobody")])
Messages == {Message1, Message2}
Batches == {Arr(<<>>), Arr(<<Message1>>), Arr(<<Message1, Message2>>)}
ServerOptionsValues == {Obj([Name |-> Str("production")]), EmptyObject}

FilterValues(k) ==
    CASE k = "count" -> {Num(10), Num(5), Undefined}
      [] k = "offset" -> {Num(20)}
      [] k = "tag" -> {Str("welcome")}

FilterObjects ==
    UNION {{Obj(f) : f \in {g \in [K -> Callbacks \cup {Num(10), Num(5), Num(20), Str("welcome")}] :
                                \A k \in K : g[k] \in FilterValues(k)}} :
           K \in SUBSET {"count", "offset", "tag"}}

BounceIds == {0, 7, 12345, 0 - 1}

IdChars == {"a", "7", "/", "?", "#", "%", " "}

RECURSIVE StringsUpTo(_)
StringsUpTo(n) ==
    IF n = 0 THEN {<<>>}
    ELSE StringsUpTo(n - 1) \cup
         {Append(s, c) : s \in {t \in StringsUpTo(n - 1) : Len(t) = n - 1}, c \in IdChars}

MessageIds == StringsUpTo(MaxIdLen)

OkResponses == {[status |-> 200, body |-> Obj([ErrorCode |-> Num(0), Message |-> Str("OK")])],
                [status |-> 200, body |-> Arr(<<Str("tag")>>)]}
ErrorResponses == {[status |-> 422, body |-> [ErrorCode |-> 300, Message |-> "Invalid email request"]],
                   [status |-> 500, body |-> [ErrorCode |-> 0, Message |-> "Internal server error"]]}
TransportErrors == {[transport |-> "ETIMEDOUT"]}

(***************************************************************************)
(* The caller's steps: one facade call, with arguments from the given sets.*)
(***************************************************************************)
Call(messages, batches, options, filters, bounceIds, messageIds) ==
    \E callback \in Callbacks :
        \/ \E message \in messages : sendEmail(message, callback)
        \/ \E batch \in batches : sendEmailBatch(batch, callback)
        \/ getDeliveryStatistics(callback)
        \/ \E filter \in filters : getBounces(filter, callback)
        \/ \E id \in bounceIds : getBounce(id, callback)
        \/ \E id \in bounceIds : getBounceDump(id, callback)
        \/ \E id \in bounceIds : activateBounce(id, callback)
        \/ getBounceTags(callback)
        \/ getServer(callback)
        \/ \E options_ \in options : editServer(options_, callback)
        \/ \E filter \in filters : getOutboundMessages(filter, callback)
        \/ \E messageId \in messageIds : getOutboundMessageDetails(messageId, callback)
        \/ \E messageId \in messageIds : getOutboundMessageDump(messageId, callback)
        \/ \E filter \in filters : getInboundMessages(filter, callback)
        \/ \E messageId \in messageIds : getInboundMessageDetails(messageId, callback)
        \/ \E messageId \in messageIds : bypassBlockedInboundMessage(messageId, callback)
        \/ \E messageId \in messageIds : retryInboundHookForMessage(messageId, callback)

Exchange(ok, errors, failures) ==
    \E i \in 1..Len(exchanges) :
        \/ \E response \in ok \cup errors : Respond(i, response)
        \/ \E error \in failures : TransportFailure(i, error)

(***************************************************************************)
(* Spec: up to MaxCalls calls in flight at once on one client; the callers *)
(* share one filter object.                                                *)
(***************************************************************************)
SharedFilter == Obj([count |-> Num(5), tag |-> Str("welcome")])

Init ==
    /\ serverToken = "token-a"
    /\ client = ServerClient(serverToken)
    /\ heap = [o \in {"shared"} |-> SharedFilter]
    /\ invocations = <<>>
    /\ exchanges = <<>>

Next ==
    \/ /\ Len(invocations) < MaxCalls
       /\ Call({Message1}, {Arr(<<Message1>>)}, {EmptyObject}, {Undefined, Ref("shared")},
               {12345}, {<<"a", "/">>})
    \/ Exchange({[status |-> 200, body |-> Obj([ErrorCode |-> Num(0), Message |-> Str("OK")])]},
                {}, TransportErrors)

Spec == Init /\ [][Next]_vars

(***************************************************************************)
(* SpecOneCall: one call on a fresh client, over all the arguments, tokens *)
(* and outcomes of the exchange.                                           *)
(***************************************************************************)
InitOneCall ==
    /\ serverToken \in {"token-a", "token-b"}
    /\ client = ServerClient(serverToken)
    /\ heap \in [{"filter"} -> FilterObjects]
    /\ invocations = <<>>
    /\ exchanges = <<>>

NextOneCall ==
    \/ /\ invocations = <<>>
       /\ Call(Messages, Batches, ServerOptionsValues, {Undefined, Ref("filter")},
               BounceIds, MessageIds)
    \/ Exchange(OkResponses, ErrorResponses, TransportErrors)

SpecOneCall == InitOneCall /\ [][NextOneCall]_vars

(***************************************************************************)
(* The operation table of the specification, and what the claims speak of. *)
(***************************************************************************)
BodyMethods == {"sendEmail", "sendEmailBatch", "editServer"}
ListMethods == {"getBounces", "getOutboundMessages", "getInboundMessages"}
IdMethods == {"getBounce", "getBounceDump", "activateBounce", "getOutboundMessageDetails",
              "getOutboundMessageDump", "getInboundMessageDetails",
              "bypassBlockedInboundMessage", "retryInboundHookForMessage"}

TableVerb(name) ==
    CASE name \in {"sendEmail", "sendEmailBatch"} -> "POST"
      [] name \in {"activateBounce", "editServer", "bypassBlockedInboundMessage",
                   "retryInboundHookForMessage"} -> "PUT"
      [] OTHER -> "GET"

TablePath(name, id) ==
    CASE name = "sendEmail" -> <<"/">> \o W_email
      [] name = "sendEmailBatch" -> <<"/">> \o W_email \o <<"/">> \o W_batch
      [] name = "getDeliveryStatistics" -> <<"/">> \o W_deliverystats
      [] name = "getBounces" -> <<"/">> \o W_bounces
      [] name = "getBounce" -> <<"/">> \o W_bounces \o <<"/">> \o id
      [] name = "getBounceDump" -> <<"/">> \o W_bounces \o <<"/">> \o id \o <<"/">> \o W_dump
      [] name = "activateBounce" ->
            <<"/">> \o W_bounces \o <<"/">> \o id \o <<"/">> \o W_activate
      [] name = "getBounceTags" -> <<"/">> \o W_bounces \o <<"/">> \o W_tags
      [] name = "getServer" -> <<"/">> \o W_server
      [] name = "editServer" -> <<"/">> \o W_server
      [] name = "getOutboundMessages" -> <<"/">> \o W_messages \o <<"/">> \o W_outbound
      [] name = "getOutboundMessageDetails" ->
            <<"/">> \o W_messages \o <<"/">> \o W_outbound \o <<"/">> \o id
      [] name = "getOutboundMessageDump" ->
            <<"/">> \o W_messages \o <<"/">> \o W_outbound \o <<"/">> \o id \o <<"/">> \o W_dump
      [] name = "getInboundMessages" -> <<"/">> \o W_messages \o <<"/">> \o W_inbound
      [] name = "getInboundMessageDetails" ->
            <<"/">> \o W_messages \o <<"/">> \o W_inbound \o <<"/">> \o id \o <<"/">> \o W_details
      [] name = "bypassBlockedInboundMessage" ->
            <<"/">> \o W_messages \o <<"/">> \o W_inbound \o <<"/">> \o id \o <<"/">> \o W_bypass
      [] name = "retryInboundHookForMessage" ->
            <<"/">> \o W_messages \o <<"/">> \o W_inbound \o <<"/">> \o id \o <<"/">> \o W_retry

IdText(arg) ==
    IF "num" \in DOMAIN arg THEN NumberToString(arg.num)
    ELSE IF "str" \in DOMAIN arg THEN arg.str ELSE <<>>

Chars(s) == {s[i] : i \in DOMAIN s}

Segments(path) == Cardinality({i \in DOMAIN path : path[i] = "/"})

Calls == 1..Len(invocations)

HasRequest(k) == invocations[k].promise \in 1..Len(exchanges)

RequestOf(k) == exchanges[invocations[k].promise]

Settled(e) == e.state # "pending"

\* C1: every call's request has the verb and the path of the operation table (the
\* identifier in the {id} position); sendEmail, sendEmailBatch and editServer pass the
\* caller's payload as the body, and the GET methods that are no list methods pass {}.
C1_RequestMatchesTable ==
    \A k \in Calls :
        /\ HasRequest(k)
        /\ RequestOf(k).method = TableVerb(invocations[k].name)
        /\ RequestOf(k).path = TablePath(invocations[k].name, IdText(invocations[k].arg))
        /\ invocations[k].name \in BodyMethods => RequestOf(k).payload = invocations[k].arg
        /\ (TableVerb(invocations[k].name) = "GET" /\ invocations[k].name \notin ListMethods)
              => RequestOf(k).payload = EmptyObject

C1_Witness ==
    \E k \in Calls :
        /\ invocations[k].name = "sendEmailBatch"
        /\ invocations[k].arg = Arr(<<Message1, Message2>>)
        /\ HasRequest(k)
        /\ RequestOf(k).method = "POST"
        /\ RequestOf(k).payload = Arr(<<Message1, Message2>>)
        /\ Len(RequestOf(k).path) = 12

\* C2: the query of a list method always has count and offset: the caller's value for
\* a key the caller's filter has, 100 and 0 otherwise; every other key of the caller
\* passes through.  No filter gives {count:100, offset:0}, {count:10} gives
\* {count:10, offset:0}, {count:5, tag:"welcome"} gives count 5, offset 0, tag welcome.
CallerFilter(k) ==
    IF invocations[k].arg = Undefined THEN [key \in {} |-> Undefined]
    ELSE heap[invocations[k].arg.ref].object

C2_ListQueryHasDefaults ==
    \A k \in Calls :
        invocations[k].name \in ListMethods =>
            /\ HasRequest(k)
            /\ "object" \in DOMAIN RequestOf(k).payload
            /\ LET query == RequestOf(k).payload.object
                   caller == CallerFilter(k)
               IN /\ DOMAIN query = {"count", "offset"} \cup DOMAIN caller
                  /\ query["count"] = IF "count" \in DOMAIN caller
                                      THEN caller["count"] ELSE Num(100)
                  /\ query["offset"] = IF "offset" \in DOMAIN caller
                                       THEN caller["offset"] ELSE Num(0)
                  /\ \A key \in DOMAIN caller : query[key] = caller[key]
                  /\ invocations[k].arg = Undefined =>
                        query = [count |-> Num(100), offset |-> Num(0)]
                  /\ caller = [count |-> Num(10)] =>
                        query = [count |-> Num(10), offset |-> Num(0)]
                  /\ caller = [count |-> Num(5), tag |-> Str("welcome")] =>
                        query = [count |-> Num(5), offset |-> Num(0), tag |-> Str("welcome")]

C2_Witness ==
    \E k \in Calls :
        /\ invocations[k].name = "getBounces"
        /\ invocations[k].arg = Ref("filter")
        /\ heap["filter"] = Obj([count |-> Num(5), tag |-> Str("welcome")])
        /\ HasRequest(k)
        /\ RequestOf(k).payload.object["offset"] = Num(0)
        /\ RequestOf(k).payload.object["count"] = Num(5)

\* C3 as stated: the path of an id-templated method is its template with the
\* url-escaped identifier in the {id} position, so that the identifier never adds a
\* segment, a query string or a fragment.
C3_IdUrlEscaped ==
    \A k \in Calls :
        invocations[k].name \in IdMethods =>
            /\ HasRequest(k)
            /\ RequestOf(k).path =
                  TablePath(invocations[k].name, UrlEscape(IdText(invocations[k].arg)))
            /\ Segments(RequestOf(k).path) = Segments(TablePath(invocations[k].name, <<>>))
            /\ Chars(RequestOf(k).path) \cap {"?", "#"} = {}

\* C3 as amended: the path of an id-templated method is its template with the
\* identifier's string form, character for character and not escaped, in the {id}
\* position; an identifier without URL-reserved characters takes exactly one segment
\* and adds no segment, query string or fragment.
C3_IdVerbatim ==
    \A k \in Calls :
        invocations[k].name \in IdMethods =>
            /\ HasRequest(k)
            /\ RequestOf(k).path = TablePath(invocations[k].name, IdText(invocations[k].arg))
            /\ Len(RequestOf(k).path) =
                  Len(TablePath(invocations[k].name, <<>>)) + Len(IdText(invocations[k].arg))
            /\ Chars(IdText(invocations[k].arg)) \cap UrlReserved = {} =>
                  /\ Segments(RequestOf(k).path) =
                        Segments(TablePath(invocations[k].name, <<>>))
                  /\ Chars(RequestOf(k).path) \cap {"?", "#"} = {}

C3_Witness ==
    \E k \in Calls :
        /\ invocations[k].name = "getOutboundMessageDump"
        /\ invocations[k].arg = Str(<<"a", "/">>)
        /\ HasRequest(k)
        /\ Segments(RequestOf(k).path) = 5

\* C6: an exchange that ends in a non-2xx response or a transport failure leaves the
\* promise the facade returned rejected, with the dispatcher's error unchanged (the
\* status and message of the response, or the transport's error).
C6_FailureRejectsReturnedPromise ==
    \A i \in 1..Len(exchanges) :
        (exchanges[i].response \in ErrorResponses \cup TransportErrors) =>
            /\ i \in Calls
            /\ invocations[i].promise = i
            /\ RequestOf(i).state = "rejected"
            /\ RequestOf(i).settles = 1
            /\ exchanges[i].response \in ErrorResponses =>
                  /\ RequestOf(i).value.status = exchanges[i].response.status
                  /\ RequestOf(i).value.message = exchanges[i].response.body.Message
                  /\ RequestOf(i).value.code = exchanges[i].response.body.ErrorCode
            /\ exchanges[i].response \in TransportErrors =>
                  RequestOf(i).value = exchanges[i].response

C6_Witness ==
    \E k \in Calls :
        /\ invocations[k].name = "getServer"
        /\ HasRequest(k)
        /\ RequestOf(k).state = "rejected"
        /\ RequestOf(k).value = [status |-> 422, code |-> 300,
                                 message |-> "Invalid email request"]

\* C9 as stated: every GET goes to the without-body entry and every POST and PUT to
\* the with-body entry.
C9_EntryFollowsVerb ==
    \A i \in 1..Len(exchanges) :
        /\ exchanges[i].method = "GET" => exchanges[i].entry = "WithoutBody"
        /\ exchanges[i].method \in {"POST", "PUT"} => exchanges[i].entry = "WithBody"

\* C9 as amended: every GET goes to the without-body entry; every POST, and the PUT
\* of editServer and activateBounce, goes to the with-body entry; the PUT of
\* bypassBlockedInboundMessage and retryInboundHookForMessage goes to the
\* without-body entry, with {} as its query parameters.
C9_EntryPerMethod ==
    \A k \in Calls :
        /\ HasRequest(k)
        /\ RequestOf(k).method = "GET" => RequestOf(k).entry = "WithoutBody"
        /\ RequestOf(k).method = "POST" => RequestOf(k).entry = "WithBody"
        /\ invocations[k].name \in {"editServer", "activateBounce"} =>
              RequestOf(k).method = "PUT" /\ RequestOf(k).entry = "WithBody"
        /\ invocations[k].name \in {"bypassBlockedInboundMessage",
                                    "retryInboundHookForMessage"} =>
              /\ RequestOf(k).method = "PUT"
              /\ RequestOf(k).entry = "WithoutBody"
              /\ RequestOf(k).payload = EmptyObject

C9_Witness ==
    /\ \E k \in Calls :
          /\ invocations[k].name = "activateBounce"
          /\ HasRequest(k)
          /\ RequestOf(k).entry = "WithBody"
          /\ RequestOf(k).method = "PUT"

\* C4: the dispatcher has been handed exactly as many requests as there were facade
\* calls, also after exchanges failed; every call returned the promise of a request
\* of its own; no promise is settled more than once.
C4_OneExchangePerCall ==
    /\ Len(exchanges) = Len(invocations)
    /\ \A k \in Calls : HasRequest(k)
    /\ \A j, k \in Calls : invocations[j].promise = invocations[k].promise => j = k
    /\ \A i \in 1..Len(exchanges) :
          /\ exchanges[i].settles <= 1
          /\ Settled(exchanges[i]) <=> exchanges[i].settles = 1

C4_Witness ==
    /\ Len(invocations) = MaxCalls
    /\ Len(exchanges) = MaxCalls
    /\ exchanges[1].state = "rejected"
    /\ exchanges[1].settles = 1
    /\ exchanges[2].state = "resolved"

\* C5: a callback given to a facade method is called at most once, not while the
\* exchange is pending, and once the promise is settled it has been called exactly
\* once: with (null, result) when the promise is resolved with result, with
\* (error, undefined) when it is rejected with error.  Without a callback none is called.
C5_CallbackFollowsPromise ==
    \A k \in Calls :
        /\ HasRequest(k)
        /\ Len(RequestOf(k).cbCalls) <= 1
        /\ invocations[k].callback = Undefined => RequestOf(k).cbCalls = <<>>
        /\ RequestOf(k).state = "pending" => RequestOf(k).cbCalls = <<>>
        /\ (invocations[k].callback # Undefined /\ RequestOf(k).state = "resolved") =>
              RequestOf(k).cbCalls = <<[callback |-> invocations[k].callback,
                                        error |-> Null, result |-> RequestOf(k).value]>>
        /\ (invocations[k].callback # Undefined /\ RequestOf(k).state = "rejected") =>
              RequestOf(k).cbCalls = <<[callback |-> invocations[k].callback,
                                        error |-> RequestOf(k).value, result |-> Undefined]>>

C5_Witness ==
    \E j, k \in Calls :
        /\ invocations[j].name = "bypassBlockedInboundMessage"
        /\ invocations[j].callback = Str("callback")
        /\ HasRequest(j)
        /\ RequestOf(j).state = "rejected"
        /\ Len(RequestOf(j).cbCalls) = 1
        /\ invocations[k].name = "sendEmail"
        /\ invocations[k].callback = Str("callback")
        /\ HasRequest(k)
        /\ RequestOf(k).state = "resolved"
        /\ Len(RequestOf(k).cbCalls) = 1

\* C7: the client keeps the token it was constructed with and the server-token header
\* name, and every request carries that header with that token.
C7_AuthHeaderOnEveryRequest ==
    /\ client = [token |-> serverToken, authHeader |-> "SERVER_TOKEN"]
    /\ \A i \in 1..Len(exchanges) :
          exchanges[i].header = [name |-> "SERVER_TOKEN", value |-> serverToken]

C7_Witness ==
    /\ Len(exchanges) = MaxCalls
    /\ \A i \in 1..Len(exchanges) : exchanges[i].header.value = "token-a"
    /\ \E i \in 1..Len(exchanges) : Settled(exchanges[i])

C10_CallerFilterUnchanged ==
    /\ heap = [o \in {"shared"} |-> SharedFilter]
    /\ \A k \in Calls :
          (invocations[k].name \in ListMethods /\ invocations[k].arg = Ref("shared")) =>
              /\ HasRequest(k)
              /\ RequestOf(k).payload =
                    Obj([count |-> Num(5), offset |-> Num(0), tag |-> Str("welcome")])

C10_Witness ==
    \E j, k \in Calls :
        /\ j < k
        /\ invocations[j].name = "getBounces"
        /\ invocations[k].name = "getInboundMessages"
        /\ invocations[j].arg = Ref("shared")
        /\ invocations[k].arg = Ref("shared")
        /\ RequestOf(j).state = "pending"
        /\ RequestOf(k).state = "pending"
        /\ heap["shared"] = Obj([count |-> Num(5), tag |-> Str("welcome")])

====
